---- MODULE Spec2Model ----
(***************************************************************************)
(* Model of app.py, the LinkedIn post generator: the pillar rotation       *)
(* state kept in pillar_state.json, the Streamlit script run (key check,   *)
(* rotation, trend fetch, generate button, rendering) and its session      *)
(* state, and two processes racing on the rotation file.                   *)
(***************************************************************************)
EXTENDS Integers, FiniteSets, Sequences, TLC

VARIABLES
    file,               \* content of pillar_state.json
    today,              \* datetime.date.today(), as a day number
    gemini_key,         \* GEMINI_API_KEY is set and non-empty
    tavily_key,         \* TAVILY_API_KEY is set and non-empty
    context_data,       \* st.session_state.context_data: the sources in the text
    sources,            \* st.session_state.sources: its keys
    generation_result,  \* st.session_state.generation_result
    obs,                \* what the last script run did
    fresh,              \* the file was absent or the default record at the start
    nwrites,            \* number of writes of the rotation file so far
    dayFirst,           \* pillars returned by the first returning call of today
    fetches,            \* fetch_detailed_trends calls in this session
    fetchEmpty,         \* a fetch of this session returned (None, None)
    pc,                 \* racing processes: position in get_todays_pillar
    loc,                \* racing processes: local variables
    before              \* racing processes: the file before either ran

vars == <<file, today, gemini_key, tavily_key, context_data, sources,
          generation_result, obs, fresh, nwrites, dayFirst, fetches,
          fetchEmpty, pc, loc, before>>

sessionVars == <<context_data, sources, generation_result, fetches, fetchEmpty>>
raceVars == <<pc, loc, before>>

----------------------------------------------------------------------------
(* Bounds *)

MaxDay == 5         \* the run starts on day 1 and ends on day MaxDay
MaxTamper == 5      \* stored indices range over -MaxTamper..MaxTamper
MaxFetch == 2       \* script runs of a session stop after MaxFetch fetches
NProcs == 2         \* racing processes

----------------------------------------------------------------------------
(* Constants of the program *)

NPillars == 4       \* len(PILLARS), the modulus of the rotation
TrendPillar == 2    \* index of "AI Trend + My Take" in PILLARS
NoDate == -1        \* None as a last_date

Procs == 1..NProcs

SearchOutcomes == {"results", "none", "fail"}
GenOutcomes == {"five_key", "missing_keys", "empty_object", "nonobject",
                "nonjson", "backend_error"}

\* state = {"last_date": None, "current_pillar_index": -1}
Default == [last_date |-> NoDate, current_pillar_index |-> -1]

FileObj(d, i) == [kind |-> "object",
                  state |-> [last_date |-> d, current_pillar_index |-> i]]

\* a file that holds no object: absent, empty, not JSON, JSON that is not an
\* object, or not openable/decodable
FileOf(k) == [kind |-> k, state |-> Default]

InitFiles ==
    {FileOf(k) : k \in {"absent", "empty", "notjson", "nonobject", "unreadable"}}
    \cup {FileObj(d, i) : d \in {NoDate, 0, 1}, i \in (-MaxTamper)..MaxTamper}

----------------------------------------------------------------------------
(* get_todays_pillar *)

\* os.path.exists(PILLAR_FILE)
Exists(f) == f.kind /= "absent"

\* with open(PILLAR_FILE, "r") as f: state = json.load(f), under
\* except json.JSONDecodeError: pass
JsonLoad(f) ==
    CASE f.kind = "object"     -> [exc |-> "none", isdict |-> TRUE, state |-> f.state]
      [] f.kind = "nonobject"  -> [exc |-> "none", isdict |-> FALSE, state |-> Default]
      [] f.kind = "unreadable" -> [exc |-> "OSError", isdict |-> TRUE, state |-> Default]
      [] OTHER                 -> [exc |-> "none", isdict |-> TRUE, state |-> Default]

\* lines 129-136: the state after loading
LoadState(f) ==
    IF Exists(f) THEN JsonLoad(f)
    ELSE [exc |-> "none", isdict |-> TRUE, state |-> Default]

\* new_index = (current_index + 1) % 4
NewIndexSkip(i) == (i + 2) % NPillars
NewIndexNoWrap(i) == i + 1
NewIndex(i) == (i + 1) % NPillars

\* PILLARS[i], a Python list subscript: negative indices count from the end
Subscript(i) ==
    IF i \in (-NPillars)..(NPillars - 1)
    THEN [exc |-> "none", pillar |-> i % NPillars]
    ELSE [exc |-> "IndexError", pillar |-> 0]

\* lines 147-148: state with the two keys overwritten
RotatedStale(st, t) == [st EXCEPT !.last_date = t]
Rotated(st, t) ==
    [st EXCEPT !.last_date = t,
               !.current_pillar_index = NewIndex(st.current_pillar_index)]

\* lines 138-155, from a loaded object
DecideAlways(st, t) ==
    [exc |-> "none", pillar |-> NewIndex(st.current_pillar_index),
     write |-> TRUE, state |-> Rotated(st, t)]
Decide(st, t) ==
    IF st.last_date /= t
    THEN [exc |-> "none", pillar |-> NewIndex(st.current_pillar_index),
          write |-> TRUE, state |-> Rotated(st, t)]
    ELSE [exc |-> Subscript(st.current_pillar_index).exc,
          pillar |-> Subscript(st.current_pillar_index).pillar,
          write |-> FALSE, state |-> st]

\* lines 138-155, from whatever the load gave: state.get exists on objects only
Outcome(ld, t) ==
    IF ld.exc /= "none"
    THEN [exc |-> ld.exc, pillar |-> 0, write |-> FALSE, state |-> Default]
    ELSE IF ~ld.isdict
    THEN [exc |-> "AttributeError", pillar |-> 0, write |-> FALSE, state |-> Default]
    ELSE Decide(ld.state, t)

\* the whole call in one process
GetTodaysPillar(f, t) ==
    LET o == Outcome(LoadState(f), t)
        w == o.exc = "none" /\ o.write
    IN  [exc |-> o.exc, pillar |-> IF o.exc = "none" THEN o.pillar ELSE 0,
         opened |-> Exists(f), wrote |-> w,
         file |-> IF w THEN [kind |-> "object", state |-> o.state] ELSE f]

----------------------------------------------------------------------------
(* fetch_detailed_trends and generate_post *)

\* the two searches in order, the whole body under except Exception
FetchDetailedTrends(s1, s2) ==
    IF s1 = "fail"
    THEN [news |-> FALSE, linkedin |-> FALSE, calls |-> 1]
    ELSE IF s2 = "fail"
    THEN [news |-> FALSE, linkedin |-> FALSE, calls |-> 2]
    ELSE [news |-> s1 = "results", linkedin |-> s2 = "results", calls |-> 2]

\* chain.invoke under except Exception: the parsed JSON value, or None
GeneratePost(g) ==
    IF g \in {"nonjson", "backend_error"} THEN "None" ELSE g

\* truth value of a stored result (None and {} are falsy)
Truthy(r) == r \notin {"None", "empty_object"}

\* lines 383-413: "in" and .get on the result; .get exists on objects only
Render(r) ==
    IF ~Truthy(r) THEN "none"
    ELSE IF r = "nonobject" THEN "AttributeError"
    ELSE "none"

\* if not gemini_key or not tavily_key: ... st.stop()
KeysOkGeminiOnly(g, t) == g
KeysOk(g, t) == g /\ t

\* if not st.session_state.context_data: the fetch is due
FetchDue(pillar, ctx) == pillar = TrendPillar /\ ctx = {}

\* final_context: the fetched context if any, else the fallback string
FinalContext(ctx) == IF ctx /= {} THEN "trend" ELSE "fallback"

----------------------------------------------------------------------------
(* The script run *)

NoRun ==
    [stage |-> "init", exc |-> "none", day |-> 0, returned |-> FALSE,
     pillar |-> 0, opened |-> FALSE, wrote |-> FALSE, fetched |-> FALSE,
     searches |-> 0, gen_called |-> FALSE, gen_context |-> "none",
     gen_failed |-> FALSE, prev_kind |-> "absent"]

IdleProcs ==
    /\ pc = [p \in Procs |-> "idle"]
    /\ loc = [p \in Procs |-> [state |-> Default, pillar |-> 0]]
    /\ before = FileOf("absent")

Init ==
    /\ file \in InitFiles
    /\ fresh = (file \in {FileOf("absent"), FileObj(NoDate, -1)})
    /\ today = 1
    /\ gemini_key \in BOOLEAN
    /\ tavily_key \in BOOLEAN
    /\ context_data = {}
    /\ sources = {}
    /\ generation_result = "None"
    /\ obs = NoRun
    /\ nwrites = 0
    /\ dayFirst = {}
    /\ fetches = 0
    /\ fetchEmpty = FALSE
    /\ IdleProcs

\* lines 318-325: a key is missing, the run stops
RunStopped ==
    /\ ~KeysOk(gemini_key, tavily_key)
    /\ obs' = [NoRun EXCEPT !.stage = "stopped", !.day = today,
                            !.prev_kind = file.kind]
    /\ UNCHANGED <<file, today, gemini_key, tavily_key, sessionVars, fresh,
                   nwrites, dayFirst, raceVars>>

\* line 328 raises: the run ends there
RunPillarRaised ==
    LET p == GetTodaysPillar(file, today) IN
    /\ KeysOk(gemini_key, tavily_key)
    /\ p.exc /= "none"
    /\ obs' = [NoRun EXCEPT !.stage = "pillar_raised", !.exc = p.exc,
                            !.day = today, !.opened = p.opened,
                            !.prev_kind = file.kind]
    /\ UNCHANGED <<file, today, gemini_key, tavily_key, sessionVars, fresh,
                   nwrites, dayFirst, raceVars>>

\* lines 328-413: the run from the rotation to the rendering. s1, s2 are the
\* outcomes of the two searches and g that of the model call, for the calls
\* the run makes
RunBody(pressed, s1, s2, g) ==
    LET p     == GetTodaysPillar(file, today)
        due   == FetchDue(p.pillar, context_data)
        f     == FetchDetailedTrends(s1, s2)
        got   == (IF f.news THEN {"news"} ELSE {})
                 \cup (IF f.linkedin THEN {"linkedin"} ELSE {})
        ctx   == IF due THEN got ELSE context_data
        res   == IF pressed THEN GeneratePost(g) ELSE generation_result
        rexc  == Render(res)
    IN
    /\ file' = p.file
    /\ nwrites' = nwrites + (IF p.wrote THEN 1 ELSE 0)
    /\ dayFirst' = IF dayFirst = {} THEN {p.pillar} ELSE dayFirst
    /\ context_data' = ctx
    /\ sources' = IF due THEN sources \cup got ELSE sources
    /\ fetches' = fetches + (IF due THEN 1 ELSE 0)
    /\ fetchEmpty' = (fetchEmpty \/ (due /\ got = {}))
    /\ generation_result' = res
    /\ obs' = [stage |-> IF rexc = "none" THEN "rendered" ELSE "render_raised",
               exc |-> rexc, day |-> today, returned |-> TRUE,
               pillar |-> p.pillar, opened |-> p.opened, wrote |-> p.wrote,
               fetched |-> due,
               searches |-> IF due THEN f.calls ELSE 0,
               gen_called |-> pressed,
               gen_context |-> IF pressed THEN FinalContext(ctx) ELSE "none",
               gen_failed |-> pressed /\ g \in {"nonjson", "backend_error"},
               prev_kind |-> file.kind]
    /\ UNCHANGED <<today, gemini_key, tavily_key, fresh, raceVars>>

\* the calls a run makes decide which outcomes it consumes
RunBodies ==
    /\ KeysOk(gemini_key, tavily_key)
    /\ GetTodaysPillar(file, today).exc = "none"
    /\ fetches < MaxFetch
    /\ LET due == FetchDue(GetTodaysPillar(file, today).pillar, context_data) IN
       \E pressed \in BOOLEAN :
         \E s1 \in (IF due THEN SearchOutcomes ELSE {"none"}) :
           \E s2 \in (IF due /\ s1 /= "fail" THEN SearchOutcomes ELSE {"none"}) :
             \E g \in (IF pressed THEN GenOutcomes ELSE {"five_key"}) :
               RunBody(pressed, s1, s2, g)

ScriptRun == RunStopped \/ RunPillarRaised \/ RunBodies

\* the calendar date moves on
DayAdvance ==
    /\ \E d \in (today + 1)..MaxDay : today' = d
    /\ dayFirst' = {}
    /\ UNCHANGED <<file, gemini_key, tavily_key, sessionVars, obs, fresh,
                   nwrites, raceVars>>

\* lines 334-339 in a fresh session: st.session_state starts empty
NewSession ==
    /\ context_data' = {}
    /\ sources' = {}
    /\ generation_result' = "None"
    /\ fetches' = 0
    /\ fetchEmpty' = FALSE
    /\ UNCHANGED <<file, today, gemini_key, tavily_key, obs, fresh, nwrites,
                   dayFirst, raceVars>>

Next == ScriptRun \/ DayAdvance \/ NewSession

Spec == Init /\ [][Next]_vars

----------------------------------------------------------------------------
(* Two processes in get_todays_pillar on the same file *)

RaceInit ==
    /\ file \in InitFiles
    /\ fresh = (file \in {FileOf("absent"), FileObj(NoDate, -1)})
    /\ today = 1
    /\ gemini_key = TRUE
    /\ tavily_key = TRUE
    /\ context_data = {}
    /\ sources = {}
    /\ generation_result = "None"
    /\ obs = NoRun
    /\ nwrites = 0
    /\ dayFirst = {}
    /\ fetches = 0
    /\ fetchEmpty = FALSE
    /\ pc = [p \in Procs |-> "check"]
    /\ loc = [p \in Procs |-> [state |-> Default, pillar |-> 0]]
    /\ before = file

\* where a process goes with the outcome of lines 138-148
Proceed(p, o) ==
    /\ pc' = [pc EXCEPT ![p] = IF o.exc /= "none" THEN "raised"
                               ELSE IF o.write THEN "open_w" ELSE "done"]
    /\ loc' = [loc EXCEPT ![p] = [state |-> o.state, pillar |-> o.pillar]]

\* line 131: os.path.exists; when absent the default state is used
Check(p) ==
    /\ pc[p] = "check"
    /\ IF Exists(file)
       THEN pc' = [pc EXCEPT ![p] = "read"] /\ loc' = loc
       ELSE Proceed(p, Outcome(LoadState(file), today))
    /\ UNCHANGED <<file, today, gemini_key, tavily_key, sessionVars, obs,
                   fresh, nwrites, dayFirst, before>>

\* lines 132-148: read and decide
Read(p) ==
    /\ pc[p] = "read"
    /\ Proceed(p, Outcome(JsonLoad(file), today))
    /\ UNCHANGED <<file, today, gemini_key, tavily_key, sessionVars, obs,
                   fresh, nwrites, dayFirst, before>>

\* line 149: open(PILLAR_FILE, "w") truncates the file
OpenW(p) ==
    /\ pc[p] = "open_w"
    /\ file' = FileOf("empty")
    /\ pc' = [pc EXCEPT ![p] = "dump"]
    /\ UNCHANGED <<today, gemini_key, tavily_key, sessionVars, obs, fresh,
                   nwrites, dayFirst, loc, before>>

\* lines 150-152: json.dump, close, return
Dump(p) ==
    /\ pc[p] = "dump"
    /\ file' = [kind |-> "object", state |-> loc[p].state]
    /\ nwrites' = nwrites + 1
    /\ pc' = [pc EXCEPT ![p] = "done"]
    /\ UNCHANGED <<today, gemini_key, tavily_key, sessionVars, obs, fresh,
                   dayFirst, loc, before>>

RaceNext == \E p \in Procs : Check(p) \/ Read(p) \/ OpenW(p) \/ Dump(p)

RaceSpec == RaceInit /\ [][RaceNext]_vars

----------------------------------------------------------------------------
(* Properties *)

StoredIdx == file.state.current_pillar_index
StoredDate == file.state.last_date
BothKeys == gemini_key /\ tavily_key

\* C1: from an absent file or the default record, with the date never going
\* backwards, the persisted index after the n-th write is (n - 1) mod 4, that
\* is 0,1,2,3,0,1,...: a call on a date other than the stored last_date writes
\* exactly (previous index + 1) mod 4, and a call on the stored date writes
\* nothing.
C1_IndexAfterWrites ==
    fresh =>
        IF nwrites = 0
        THEN file \in {FileOf("absent"), FileObj(NoDate, -1)}
        ELSE /\ file.kind = "object"
             /\ StoredIdx = (nwrites - 1) % 4
             /\ StoredDate \in 1..today
C1_CallStep ==
    (fresh /\ BothKeys /\ ScriptRun) =>
        IF StoredDate /= today
        THEN /\ nwrites' = nwrites + 1
             /\ file' = FileObj(today, (StoredIdx + 1) % 4)
        ELSE /\ nwrites' = nwrites
             /\ file' = file
C1_RotationCycles == [](C1_IndexAfterWrites) /\ [][C1_CallStep]_vars
C1_Witness ==
    fresh /\ nwrites = 5 /\ file = FileObj(today, 0) /\ obs.wrote /\ obs.pillar = 0

\* C2: once a call has returned today, every further call today returns the
\* pillar the first one returned and writes nothing: the file is unchanged.
C2_SameDayIdempotent ==
    [][(dayFirst /= {} /\ today' = today) =>
          /\ file' = file
          /\ nwrites' = nwrites
          /\ ScriptRun => (obs'.returned /\ ~obs'.wrote /\ dayFirst = {obs'.pillar})
      ]_vars
C2_Witness ==
    /\ obs.returned /\ ~obs.wrote /\ obs.day = today
    /\ nwrites >= 1 /\ file.kind = "object" /\ StoredDate = today
    /\ dayFirst = {obs.pillar}

\* C3: a call with a stored last_date other than today and a stored index i
\* in [-1,3] persists exactly {last_date: today, index: (i+1) mod 4} and
\* returns PILLARS[(i+1) mod 4]; and whenever a call returns, the pillar it
\* returned is PILLARS[persisted index] and the persisted last_date is today.
C3_RotateAndPersist ==
    [][(BothKeys /\ ScriptRun) =>
          /\ (LoadState(file).isdict /\ LoadState(file).exc = "none"
              /\ LoadState(file).state.last_date /= today
              /\ LoadState(file).state.current_pillar_index \in (-1)..3)
             => LET i == LoadState(file).state.current_pillar_index IN
                /\ obs'.returned
                /\ obs'.pillar = (i + 1) % 4
                /\ file' = FileObj(today, (i + 1) % 4)
          /\ obs'.returned =>
                /\ file'.kind = "object"
                /\ file'.state.last_date = today
                /\ file'.state.current_pillar_index \in (-4)..3
                /\ obs'.pillar = file'.state.current_pillar_index % 4
      ]_vars
C3_Witness ==
    /\ obs.returned /\ obs.wrote /\ obs.pillar = 0 /\ obs.prev_kind = "object"
    /\ nwrites >= 2 /\ file = FileObj(today, 0)

\* C4 as claimed: with a corrupted or unreadable file of any kind the call
\* raises nothing, returns pillar 0 and persists {today, 0}.
C4_CorruptAsDefault ==
    (obs.stage \notin {"init", "stopped"}
       /\ obs.prev_kind \in {"empty", "notjson", "nonobject", "unreadable"})
    => /\ obs.exc = "none" \/ obs.stage = "render_raised"
       /\ obs.returned /\ obs.pillar = 0 /\ obs.wrote
       /\ file = FileObj(obs.day, 0)

\* C5 as claimed: a generate action that fails leaves the stored result as it
\* was.
C5_FailedGenerateKeepsResult ==
    [][(ScriptRun /\ obs'.gen_failed /\ generation_result /= "None")
          => generation_result' = generation_result]_vars

\* C6 as claimed: at most one trend fetch per session, whatever its outcome.
C6_FetchAtMostOnce == fetches <= 1

\* C7 as claimed: a fetch that finds nothing or fails returns (None, None)
\* without raising, the run goes on with an empty context, and a later
\* generate action of the session passes the fallback context.
C7_EmptyFetchThenFallback ==
    [][ScriptRun =>
          /\ (fetchEmpty' /\ ~fetchEmpty)
             => (obs'.fetched /\ obs'.returned /\ context_data' = {})
          /\ (fetchEmpty /\ obs'.gen_called) => obs'.gen_context = "fallback"
      ]_vars

\* C8: with a secret missing every run stops before the rotation file is
\* read or written, before any search and before any generation.
C8_MissingKeyStops ==
    ~(gemini_key /\ tavily_key) =>
        /\ obs.stage \in {"init", "stopped"}
        /\ ~obs.opened /\ ~obs.wrote /\ ~obs.returned
        /\ obs.searches = 0 /\ ~obs.fetched /\ ~obs.gen_called
        /\ nwrites = 0 /\ fetches = 0 /\ dayFirst = {}
        /\ generation_result = "None" /\ context_data = {}
C8_Witness == gemini_key /\ ~tavily_key /\ obs.stage = "stopped"

\* C9 as claimed: with both secrets present every script run completes
\* through the rendering without an uncaught error.
C9_NoRunRaises == BothKeys => obs.stage \in {"init", "rendered"}

----------------------------------------------------------------------------
(* The race *)

\* the stored index before either process ran, on a new day
RacePre ==
    /\ \A p \in Procs : pc[p] /= "idle"
    /\ \/ before = FileOf("absent")
       \/ /\ before.kind = "object"
          /\ before.state.last_date /= today
          /\ before.state.current_pillar_index \in (-1)..3
RaceNext1 == (before.state.current_pillar_index + 1) % 4
AllReturned == \A p \in Procs : pc[p] \in {"done", "raised"}

\* C10 as claimed: in every interleaving both processes return
\* PILLARS[(i+1) mod 4] and the file ends as {today, (i+1) mod 4}.
C10_RaceAdvancesByOne ==
    (RacePre /\ AllReturned) =>
        /\ \A p \in Procs : pc[p] = "done" /\ loc[p].pillar = RaceNext1
        /\ file = FileObj(today, RaceNext1)

\* C10 amended: no process raises; each returns PILLARS[(i+1) mod 4] or, having
\* read the file while another had it truncated, PILLARS[0]; the process that
\* truncated first returns PILLARS[(i+1) mod 4]; the file ends as {today, k},
\* k the pillar of the process that wrote.
C10_RaceAdvancesOrResets ==
    RacePre =>
        /\ \A p \in Procs :
              /\ pc[p] /= "raised"
              /\ pc[p] \in {"open_w", "dump", "done"}
                   => loc[p].pillar \in {RaceNext1, 0}
        /\ AllReturned =>
              /\ file.kind = "object"
              /\ StoredDate = today
              /\ \E p \in Procs : loc[p].pillar = RaceNext1
              /\ \E p \in Procs : loc[p].pillar = StoredIdx
C10_Witness ==
    /\ RacePre /\ AllReturned /\ RaceNext1 = 2
    /\ \E p, q \in Procs : loc[p].pillar = 2 /\ loc[q].pillar = 0
    /\ file = FileObj(today, 0)

====
